---------------------------- MODULE Spec2Model ----------------------------
(***************************************************************************)
(* USBGuard kernel module (src/usbguard.c): the rule store (allowed        *)
(* VID/PID pairs, blocked serials), the text parser that feeds it, the     *)
(* sysfs handlers that read and extend it, and the probe callback that     *)
(* decides every attach.                                                   *)
(*                                                                         *)
(* Text is a sequence of one-character strings; a C string's terminating   *)
(* NUL is the end of the sequence and a NULL pointer is the value NULL.    *)
(***************************************************************************)
EXTENDS Integers, Sequences, FiniteSets, TLC

(***************************************************************************)
(* Program constants.  MAX_RULES and MAX_SERIALS are 128 in the source     *)
(* (src/usbguard.c:32-33); the model runs them scaled down so that a full  *)
(* store is reached.                                                       *)
(***************************************************************************)
MAX_RULES == 2

MAX_SERIALS == 2

RULE_LINE_MAX == 128

EINVAL == 22

ERANGE == 34

EACCES == 13

ENOMEM == 12
ENOENT == 2

\* a NULL pointer: a value that is no text
NULL == <<"NULL">>

\* the owner field of an unlocked mutex
UNLOCKED == "unlocked"

(***************************************************************************)
(* <linux/ctype.h>, lib/kstrtox.c, lib/string.c: the library routines the  *)
(* parser calls, as the kernel defines them.                               *)
(***************************************************************************)
isspace(c) == c \in {" ", "\t", "\n", "\r", "\f"}

LowerHex == <<"0","1","2","3","4","5","6","7","8","9","a","b","c","d","e","f">>

UpperHex == <<"0","1","2","3","4","5","6","7","8","9","A","B","C","D","E","F">>

\* hex_to_bin(): the value of a hexadecimal digit, -1 for any other character
hex_to_bin(c) ==
    IF \E i \in 1..16 : LowerHex[i] = c
    THEN (CHOOSE i \in 1..16 : LowerHex[i] = c) - 1
    ELSE IF \E i \in 1..16 : UpperHex[i] = c
         THEN (CHOOSE i \in 1..16 : UpperHex[i] = c) - 1
         ELSE -1

\* the text from position i on (a pointer advanced by i - 1 characters)
From(s, i) == SubSeq(s, i, Len(s))

\* _parse_integer(): the leading run of base-16 digits, rv = characters used
RECURSIVE _parse_integer(_, _, _)
_parse_integer(s, res, rv) ==
    IF s # << >> /\ hex_to_bin(Head(s)) >= 0
    THEN _parse_integer(Tail(s), res * 16 + hex_to_bin(Head(s)), rv + 1)
    ELSE [rv |-> rv, res |-> res]

\* kstrtoul(s, 16, &res): the WHOLE string must be one number; an optional
\* leading '+', an optional "0x", digits, an optional single trailing newline.
\* Anything left after that is -EINVAL.  (-ERANGE, for a value that overflows
\* unsigned long, takes more than sixteen digits; no input below has them.)
kstrtoul(str) ==
    LET s0 == IF str # << >> /\ Head(str) = "+" THEN Tail(str) ELSE str
        s1 == IF Len(s0) >= 2 /\ s0[1] = "0" /\ s0[2] \in {"x", "X"}
              THEN From(s0, 3) ELSE s0
        r  == _parse_integer(s1, 0, 0)
        s2 == From(s1, r.rv + 1)
        s3 == IF s2 # << >> /\ Head(s2) = "\n" THEN Tail(s2) ELSE s2
    IN  IF r.rv = 0 THEN [rc |-> -EINVAL, res |-> 0]
        ELSE IF s3 # << >> THEN [rc |-> -EINVAL, res |-> 0]
        ELSE [rc |-> 0, res |-> r.res]

\* strchr(s, c): the text from the first c on, NULL when s holds no c
RECURSIVE strchr(_, _)
strchr(s, c) ==
    IF s = << >> THEN NULL
    ELSE IF Head(s) = c THEN s
    ELSE strchr(Tail(s), c)

\* while (isspace(*s)) s++;
RECURSIVE SkipSpace(_)
SkipSpace(s) ==
    IF s # << >> /\ isspace(Head(s)) THEN SkipSpace(Tail(s)) ELSE s

\* while (end > s && isspace(*end)) *end-- = '\0';
RECURSIVE StripEnd(_)
StripEnd(s) ==
    IF Len(s) > 1 /\ isspace(s[Len(s)]) THEN StripEnd(SubSeq(s, 1, Len(s) - 1))
    ELSE s

trim(str) ==
    LET s == SkipSpace(str)
    IN  IF s = << >> THEN s ELSE StripEnd(s)

\* the parser of the older variants: sscanf(buf, "%x %x", &vid, &pid), the
\* two values cut to 16 bits and no range test
RECURSIVE HexPrefix(_)
HexPrefix(s) ==
    IF s # << >> /\ hex_to_bin(Head(s)) >= 0 THEN <<Head(s)>> \o HexPrefix(Tail(s)) ELSE << >>

parse_vidpid_line_Sscanf(line) ==
    LET a  == SkipSpace(line)
        t1 == HexPrefix(a)
        b  == SkipSpace(From(a, Len(t1) + 1))
        t2 == HexPrefix(b)
    IN  IF t1 = << >> \/ t2 = << >> THEN [rc |-> -EINVAL, vid |-> 0, pid |-> 0]
        ELSE [rc |-> 0, vid |-> _parse_integer(t1, 0, 0).res % 65536,
              pid |-> _parse_integer(t2, 0, 0).res % 65536]

\* parse_vidpid_line(): rc = 0 and the pair, or a negative errno
parse_vidpid_line(line) ==
    LET p    == trim(line)
        bad(e) == [rc |-> e, vid |-> 0, pid |-> 0]
    IN  IF p = << >> \/ Head(p) = "#" THEN bad(-EINVAL)
        ELSE LET k1 == kstrtoul(p)
             IN  IF k1.rc # 0 THEN bad(k1.rc)
                 ELSE LET sp == strchr(p, " ")
                      IN  IF sp = NULL THEN bad(-EINVAL)
                          ELSE LET k2 == kstrtoul(SkipSpace(sp))
                               IN  IF k2.rc # 0 THEN bad(k2.rc)
                                   ELSE IF k1.res > 65535 \/ k2.res > 65535
                                        THEN bad(-ERANGE)
                                        ELSE [rc |-> 0, vid |-> k1.res % 65536,
                                              pid |-> k2.res % 65536]


(***************************************************************************)
(* Inputs.  The texts written to the sysfs attributes, the contents of     *)
(* /etc/usbguard.rules, and the devices that attach.                       *)
(***************************************************************************)
\* echo "04d9 1702" > /sys/kernel/usbguard/rules
BufRule == <<"0","4","d","9"," ","1","7","0","2","\n">>

BufTab == <<"0","4","d","9","\t","1","7","0","2">>

BufMixed == <<"#"," ","c","\n","b","a","d"," ","l","i","n","e","\n","0","4","6","d"," ","c","0","7","7">>

BufWide == <<"1","2","3","4","5"," ","1","\n","0","4","d","9">>

RuleBufs == {BufRule, BufTab, BufMixed, BufWide}

BufSerialA == <<" ","A"," ","\n">>

BufSerialAB == <<"A","\n","B">>

BufBlank == <<" ","\n">>

SerialBufs == {BufSerialA, BufSerialAB, BufBlank}

\* the five lines of the spec's bulk_load example, one per line of the file
SampleFile == <<"#"," ","c","o","m","m","e","n","t","\n","\n","0","4","d","9"," ","1","7","0","2","\n","b","a","d"," ","l","i","n","e","\n","0","4","6","d"," ","c","0","7","7","\n">>

\* src/usbguard.rules as shipped
ShippedFile == <<"#"," ","U","S","B","G","u","a","r","d"," ","R","u","l","e","s"," ","F","i","l","e","\n","#"," ","-","-","-","-","-","-","-","-","-","-","-","-","-","-","-","-","-","-","-","-","\n","#"," ","T","h","i","s"," ","f","i","l","e"," ","c","o","n","t","a","i","n","s"," ","a"," ","l","i","s","t"," ","o","f"," ","a","l","l","o","w","e","d"," ","U","S","B"," ","d","e","v","i","c","e","s"," ","b","a","s","e","d"," ","o","n"," ","t","h","e","i","r"," ","V","e","n","d","o","r"," ","I","D"," ","(","V","I","D",")"," ","a","n","d"," ","P","r","o","d","u","c","t"," ","I","D"," ","(","P","I","D",")",".","\n","#"," ","E","a","c","h"," ","e","n","t","r","y"," ","s","h","o","u","l","d"," ","b","e"," ","i","n"," ","t","h","e"," ","f","o","r","m","a","t",":"," ","V","I","D"," ","P","I","D","\n","#"," ","V","I","D"," ","="," ","V","e","n","d","o","r"," ","I","D"," ","(","4","-","d","i","g","i","t"," ","h","e","x","a","d","e","c","i","m","a","l"," ","n","u","m","b","e","r",")","\n","#"," ","P","I","D"," ","="," ","P","r","o","d","u","c","t"," ","I","D"," ","(","4","-","d","i","g","i","t"," ","h","e","x","a","d","e","c","i","m","a","l"," ","n","u","m","b","e","r",")","\n","#","\n","#"," ","L","i","n","e","s"," ","s","t","a","r","t","i","n","g"," ","w","i","t","h"," ","'","#","'"," ","a","r","e"," ","c","o","m","m","e","n","t","s"," ","a","n","d"," ","w","i","l","l"," ","b","e"," ","i","g","n","o","r","e","d",".","\n","#","\n","#"," ","E","x","a","m","p","l","e"," ","e","n","t","r","i","e","s",":","\n","\n","#"," ","A","l","l","o","w"," ","a"," ","s","t","a","n","d","a","r","d"," ","k","e","y","b","o","a","r","d"," ","(","e","x","a","m","p","l","e"," ","V","I","D","/","P","I","D",")","\n","0","4","d","9"," ","1","7","0","2","\n","\n","#"," ","A","l","l","o","w"," ","a"," ","s","p","e","c","i","f","i","c"," ","U","S","B"," ","f","l","a","s","h"," ","d","r","i","v","e"," ","(","e","x","a","m","p","l","e"," ","V","I","D","/","P","I","D",")","\n","0","7","8","1"," ","5","5","6","7","\n","\n","#"," ","A","l","l","o","w"," ","a"," ","L","o","g","i","t","e","c","h"," ","m","o","u","s","e"," ","(","e","x","a","m","p","l","e"," ","V","I","D","/","P","I","D",")","\n","0","4","6","d"," ","c","0","7","7","\n","\n","#"," ","A","d","d"," ","m","o","r","e"," ","d","e","v","i","c","e","s"," ","b","e","l","o","w"," ","f","o","l","l","o","w","i","n","g"," ","t","h","e"," ","f","o","r","m","a","t"," ","V","I","D"," ","P","I","D">>

\* a file whose rule line lies across the end of the first read of
\* RULE_LINE_MAX - 1 bytes: three comment lines of 40 bytes, an empty line,
\* then "04d9 1702\n" from byte 122 on
CommentLine == [i \in 1..((RULE_LINE_MAX - 8) \div 3 - 1) |-> "#"] \o <<"\n">>

StraddleFile == CommentLine \o CommentLine \o CommentLine \o <<"\n">> \o BufRule

Files == {SampleFile, ShippedFile, StraddleFile}

Pair(v, p) == [vid |-> v, pid |-> p]

\* 04d9:1702, 046d:c077 and the all-zero pair a kzalloc'ed slot holds
Pairs == {Pair(1241, 5890), Pair(1133, 49271), Pair(0, 0)}

\* what usb_string() can deliver: a failed read, or the serial text
Serials == {NULL, << >>, <<"A">>, <<"a">>, <<"A", " ">>}

\* a device: its descriptor ids, its iSerialNumber index (0: none) and the
\* string the device answers with when that index is read
Requests ==
    [vid : {1241, 0}, pid : {5890, 0}, iSerialNumber : {0}, str : {NULL}]
    \cup [vid : {1241}, pid : {5890}, iSerialNumber : {3}, str : Serials]
    \cup [vid : {0}, pid : {0}, iSerialNumber : {3}, str : {<<"A">>}]

Threads == {"t1", "t2"}


(***************************************************************************)
(* State.                                                                  *)
(***************************************************************************)
VARIABLES
    rules,                \* struct vidpid *rules: NULL, or slots 0..MAX_RULES-1
    rule_count,
    blocked_serials,      \* char *blocked_serials[MAX_SERIALS]
    blocked_serial_count,
    rules_lock,           \* owner of the mutex, UNLOCKED when free
    oob,                  \* a store has been made outside the two arrays
    addedPairs,           \* the pairs the load and rules_store() have appended
    init,                 \* the thread that runs usbguard_init()
    th                    \* the threads that run probe and the sysfs handlers

vars == <<rules, rule_count, blocked_serials, blocked_serial_count,
          rules_lock, oob, addedPairs, init, th>>

store == <<rules, rule_count, blocked_serials, blocked_serial_count, oob, addedPairs>>

(***************************************************************************)
(* What the policy says: the stored rules, the blocked serials, and the    *)
(* decision the identity-then-serial algorithm of the specification gives  *)
(* on them.  These are read off the state; the handlers below do not use   *)
(* them.                                                                   *)
(***************************************************************************)
StoredRules(rl, n) == IF rl = NULL THEN {} ELSE {rl[i] : i \in (0..(n - 1)) \cap DOMAIN rl}

StoredSerials(bs, n) == {bs[i] : i \in (0..(n - 1)) \cap DOMAIN bs} \ {NULL}

\* the serial the attach event carries: none when the device has no serial
\* string or the string cannot be read
SerialOf(req) == IF req.iSerialNumber = 0 THEN NULL ELSE req.str

Decide(rl, n, bs, m, req) ==
    IF Pair(req.vid, req.pid) \notin StoredRules(rl, n) THEN "DenyIdentity"
    ELSE IF SerialOf(req) \notin {NULL, << >>} /\ SerialOf(req) \in StoredSerials(bs, m)
         THEN "DenySerial"
         ELSE "Allow"

DecideNow(req) == Decide(rules, rule_count, blocked_serials, blocked_serial_count, req)

(***************************************************************************)
(* Thread records.                                                         *)
(***************************************************************************)
Idle == [pc |-> "idle", op |-> "none", arg |-> NULL, line |-> NULL, s |-> NULL,
         cur |-> NULL, rc |-> 0, ret |-> 0, log |-> "none", out |-> << >>,
         added |-> 0, obs |-> "none", win |-> {},
         held |-> TRUE, ext |-> {}, n |-> 0, lst |-> "none", recs |-> 0]

\* the first line of a text and the text after its newline (NULL at the end):
\* next = strchr(line, '\n'); if (next) *next++ = '\0';
RECURSIVE UpTo(_, _)
UpTo(s, c) ==
    IF s = << >> \/ Head(s) = c THEN << >> ELSE <<Head(s)>> \o UpTo(Tail(s), c)

NextLine(line) ==
    IF strchr(line, "\n") = NULL THEN NULL ELSE Tail(strchr(line, "\n"))

\* rules[rule_count] = {vid, pid}: a store through the pointer; outside the
\* allocation it lands in other memory
StoreRule(rl, i, v) == IF i \in DOMAIN rl THEN [rl EXCEPT ![i] = v] ELSE rl

\* the store made to the first slot whatever the count: [0] for [count]
StoreSerial_SlotZero(bs, i, v) == [bs EXCEPT ![0] = v]

StoreSerial(bs, i, v) == IF i \in DOMAIN bs THEN [bs EXCEPT ![i] = v] ELSE bs

\* A read of the rule list or of the serial list by thread t: it is noted
\* against every other thread that is part-way through a write call to that
\* list and has stored an entry of it already.
Observe(t, list) ==
    [u \in Threads |->
        IF u # t /\ th[u].op = list /\ th[u].pc # "ret" /\ th[u].added > 0
           /\ th[u].obs = "none"
        THEN [th[u] EXCEPT !.obs = "mid"] ELSE th[u]]

\* The same for a listing (rules_show, blocked_show): it is noted as a read
\* and, separately, as a listing.
ObserveList(t, list) ==
    [u \in Threads |->
        IF u # t /\ th[u].op = list /\ th[u].pc # "ret" /\ th[u].added > 0
        THEN [th[u] EXCEPT !.obs = IF @ = "none" THEN "mid" ELSE @,
                           !.lst = IF @ = "none" THEN "mid" ELSE @]
        ELSE th[u]]

\* A change of the store, seen from the probes that have been called and have
\* not returned: each collects the decision the new store gives its device.
Widen(f, rl, n, bs, m) ==
    [u \in Threads |->
        IF f[u].op = "probe"
        THEN [f[u] EXCEPT !.win = @ \cup {Decide(rl, n, bs, m, f[u].arg)}]
        ELSE f[u]]


(***************************************************************************)
(* usbguard_init() and load_rules_from_file().                             *)
(***************************************************************************)
\* the two sysfs attributes of the usbguard kobject
Attrs == {"rules", "blocked_serials"}

Init ==
    /\ rules = NULL
    /\ rule_count = 0
    /\ blocked_serials = [i \in 0..(MAX_SERIALS - 1) |-> NULL]
    /\ blocked_serial_count = 0
    /\ rules_lock = UNLOCKED
    /\ oob = FALSE
    /\ addedPairs = {}
    /\ init = [pc |-> "alloc", src |-> NULL, pos |-> 0, line |-> NULL,
               cur |-> NULL, rc |-> 0, ext |-> {}, ret |-> 0,
               attrs |-> {}, drv |-> FALSE, path |-> "init"]
    /\ th = [t \in Threads |-> Idle]

\* if (rule_count < MAX_RULES)
RuleRoom(n) == n < MAX_RULES

\* the same test let through at the bound: <= for <
SerialRoom_AtBound(n) == n <= MAX_SERIALS

\* if (blocked_serial_count < MAX_SERIALS)
SerialRoom(n) == n < MAX_SERIALS

\* the attributes created and the driver registered straight after the
\* allocation, ahead of load_rules_from_file()
InitAlloc_RegisterFirst ==
    /\ init.pc = "alloc"
    /\ \E ok \in BOOLEAN :
        IF ok
        THEN /\ rules' = [i \in 0..(MAX_RULES - 1) |-> Pair(0, 0)]
             /\ rule_count' = 0
             /\ blocked_serial_count' = 0
             /\ init' = [init EXCEPT !.pc = "open", !.attrs = Attrs, !.drv = TRUE]
        ELSE /\ init' = [init EXCEPT !.pc = "failed"]
             /\ UNCHANGED <<rules, rule_count, blocked_serial_count>>
    /\ UNCHANGED <<blocked_serials, rules_lock, oob, addedPairs, th>>

\* rules = kzalloc(...); rule_count = 0; blocked_serial_count = 0;
InitAlloc ==
    /\ init.pc = "alloc"
    /\ \E ok \in BOOLEAN :
        IF ok
        THEN /\ rules' = [i \in 0..(MAX_RULES - 1) |-> Pair(0, 0)]
             /\ rule_count' = 0
             /\ blocked_serial_count' = 0
             /\ init' = [init EXCEPT !.pc = "open"]
        ELSE /\ init' = [init EXCEPT !.pc = "failed"]
             /\ UNCHANGED <<rules, rule_count, blocked_serial_count>>
    /\ UNCHANGED <<blocked_serials, rules_lock, oob, addedPairs, th>>

\* filp_open(): the load gives up when the file cannot be opened, returning
\* PTR_ERR(filp), and usbguard_init() goes on without rules
LoadOpen ==
    /\ init.pc = "open"
    /\ \E f \in Files \cup {NULL} :
        IF f = NULL
        THEN init' = [init EXCEPT !.pc = "register", !.ret = -ENOENT]
        ELSE init' = [init EXCEPT !.pc = "read", !.src = f, !.pos = 0]
    /\ UNCHANGED <<store, rules_lock, th>>

\* bytes = kernel_read(filp, buf, RULE_LINE_MAX - 1, &pos); buf[bytes] = 0
LoadRead ==
    /\ init.pc = "read"
    /\ LET left  == Len(init.src) - init.pos
           bytes == IF left < RULE_LINE_MAX - 1 THEN left ELSE RULE_LINE_MAX - 1
       IN  IF bytes <= 0
           THEN init' = [init EXCEPT !.pc = "register", !.line = NULL, !.ret = 0]
           ELSE init' = [init EXCEPT !.pc = "line", !.pos = @ + bytes,
                             !.line = SubSeq(init.src, init.pos + 1, init.pos + bytes)]
    /\ UNCHANGED <<store, rules_lock, th>>

\* one turn of the inner loop: cut the line at its newline, parse it and,
\* under the lock, append the pair while there is room
LoadLine ==
    /\ init.pc = "line"
    /\ LET r    == parse_vidpid_line(UpTo(init.line, "\n"))
           next == NextLine(init.line)
       IN  /\ IF r.rc = 0
              THEN /\ rules_lock = UNLOCKED
                   /\ IF RuleRoom(rule_count)
                      THEN /\ rules' = StoreRule(rules, rule_count, Pair(r.vid, r.pid))
                           /\ oob' = (oob \/ rule_count \notin DOMAIN rules)
                           /\ rule_count' = rule_count + 1
                           /\ addedPairs' = addedPairs \cup {Pair(r.vid, r.pid)}
                      ELSE UNCHANGED <<rules, rule_count, oob, addedPairs>>
              ELSE UNCHANGED <<rules, rule_count, oob, addedPairs>>
           /\ init' = [init EXCEPT !.line = next, !.cur = UpTo(init.line, "\n"),
                                   !.rc = r.rc,
                                   !.ext = IF r.rc = 0 /\ RuleRoom(rule_count)
                                           THEN @ \cup {"pr_info"} ELSE @,
                                   !.pc = IF next = NULL THEN "read" ELSE "line"]
    /\ UNCHANGED <<blocked_serials, blocked_serial_count, rules_lock, th>>

\* the rest of usbguard_init(): the kobject, the two attributes, the driver.
\* Any of them can fail; the rule array is then freed and the module is not
\* loaded.
InitRegister ==
    /\ init.pc = "register"
    /\ \E ok \in BOOLEAN :
        IF ok
        THEN /\ init' = [init EXCEPT !.pc = "running", !.attrs = Attrs, !.drv = TRUE]
             /\ UNCHANGED rules
        ELSE /\ init' = [init EXCEPT !.pc = "failed"]
             /\ rules' = NULL
    /\ UNCHANGED <<rule_count, blocked_serials, blocked_serial_count, rules_lock, oob,
                   addedPairs, th>>


(***************************************************************************)
(* The mutex.  A thread blocked in mutex_lock() is a thread whose step is  *)
(* not enabled.                                                            *)
(***************************************************************************)
LockSites == [match |-> "match_cs", serial |-> "serial_cs", bs_lock |-> "bs_cs",
              rsh_lock |-> "rsh_cs", bsh_lock |-> "bsh_cs"]

\* the lock taken without waiting for its holder
mutex_lock_NoWait(t) ==
    /\ th[t].pc \in DOMAIN LockSites
    /\ rules_lock' = t
    /\ th' = [th EXCEPT ![t].pc = LockSites[th[t].pc]]
    /\ UNCHANGED <<store, init>>

\* mutex_lock() called twice in a row: the first call gets the lock, the
\* second waits for it
mutex_lock_Twice(t) ==
    /\ th[t].pc \in DOMAIN LockSites
    /\ rules_lock = UNLOCKED
    /\ rules_lock' = t
    /\ UNCHANGED <<store, init, th>>

mutex_lock(t) ==
    /\ th[t].pc \in DOMAIN LockSites
    /\ rules_lock = UNLOCKED
    /\ rules_lock' = t
    /\ th' = [th EXCEPT ![t].pc = LockSites[th[t].pc]]
    /\ UNCHANGED <<store, init>>

(***************************************************************************)
(* usbguard_probe(), match_rules(), serial_blocked().                      *)
(***************************************************************************)
\* the loop with the product id left out of the comparison
RECURSIVE match_rules_VendorOnly(_, _, _, _, _)
match_rules_VendorOnly(rl, n, vid, pid, i) ==
    IF i < n
    THEN IF rl[i].vid = vid THEN TRUE
         ELSE match_rules_VendorOnly(rl, n, vid, pid, i + 1)
    ELSE FALSE

\* the loop of match_rules(), from slot i on
RECURSIVE match_rules(_, _, _, _, _)
match_rules(rl, n, vid, pid, i) ==
    IF i < n
    THEN IF rl[i].vid = vid /\ rl[i].pid = pid THEN TRUE
         ELSE match_rules(rl, n, vid, pid, i + 1)
    ELSE FALSE

\* the loop that answers after its first slot: "return false" inside the body
serial_blocked_FirstSlot(bs, n, s, i) ==
    IF i < n THEN bs[i] # NULL /\ bs[i] = s ELSE FALSE

\* the loop with the strcmp() test the wrong way round: a non-zero result,
\* that is a difference, taken for a hit
RECURSIVE serial_blocked_Differs(_, _, _, _)
serial_blocked_Differs(bs, n, s, i) ==
    IF i < n
    THEN IF bs[i] # NULL /\ bs[i] # s THEN TRUE
         ELSE serial_blocked_Differs(bs, n, s, i + 1)
    ELSE FALSE

\* the loop comparing without regard to case: strcasecmp() for strcmp()
tolower(c) ==
    IF \E k \in 11..16 : UpperHex[k] = c
    THEN LowerHex[CHOOSE k \in 11..16 : UpperHex[k] = c] ELSE c

RECURSIVE serial_blocked_NoCase(_, _, _, _)
serial_blocked_NoCase(bs, n, s, i) ==
    IF i < n
    THEN IF bs[i] # NULL /\ Len(bs[i]) = Len(s)
            /\ \A k \in 1..Len(s) : tolower(bs[i][k]) = tolower(s[k])
         THEN TRUE
         ELSE serial_blocked_NoCase(bs, n, s, i + 1)
    ELSE FALSE

\* the loop of serial_blocked(), from slot i on
RECURSIVE serial_blocked(_, _, _, _)
serial_blocked(bs, n, s, i) ==
    IF i < n
    THEN IF bs[i] # NULL /\ bs[i] = s THEN TRUE
         ELSE serial_blocked(bs, n, s, i + 1)
    ELSE FALSE

\* char serial[128]
SerialBufSize == 128

\* usb_string(udev, index, serial, sizeof(serial)): the length copied, at
\* most size - 1 characters, or a negative errno
usb_string(str, size) ==
    IF str = NULL THEN [ret |-> -EINVAL, serial |-> << >>]
    ELSE LET n == IF Len(str) < size - 1 THEN Len(str) ELSE size - 1
         IN  [ret |-> n, serial |-> SubSeq(str, 1, n)]

\* the attach callback is entered; "device attached" is logged
ProbeCall(t) ==
    /\ init.drv
    /\ th[t].pc = "idle"
    /\ \E req \in Requests :
        th' = [th EXCEPT ![t] = [Idle EXCEPT !.pc = "match", !.op = "probe",
                                            !.arg = req, !.win = {DecideNow(req)}]]
    /\ UNCHANGED <<store, rules_lock, init>>

\* match_rules() that moves the rule it matched to the front of the list
MatchScan_Promote(t) ==
    /\ rules_lock' = UNLOCKED
    /\ LET req   == th[t].arg
           found == match_rules(rules, rule_count, req.vid, req.pid, 0)
           k     == CHOOSE i \in 0..(rule_count - 1) :
                        rules[i].vid = req.vid /\ rules[i].pid = req.pid
           us    == usb_string(req.str, SerialBufSize)
       IN  /\ rules' = IF found THEN [rules EXCEPT ![0] = rules[k], ![k] = rules[0]]
                       ELSE rules
           /\ th' = [th EXCEPT ![t] =
                IF ~found
                THEN [@ EXCEPT !.pc = "ret", !.ret = -EACCES, !.log = "reject_vidpid"]
                ELSE IF req.iSerialNumber # 0 /\ us.ret > 0 /\ us.serial # << >>
                     THEN [@ EXCEPT !.pc = "serial", !.s = us.serial]
                     ELSE [@ EXCEPT !.pc = "ret", !.ret = 0, !.log = "accepted"]]
    /\ UNCHANGED <<rule_count, blocked_serials, blocked_serial_count, oob, addedPairs, init>>

\* match_rules() inside the lock, and what usbguard_probe() does with the
\* answer up to its next lock or its return
MatchScan(t) ==
    /\ rules_lock' = UNLOCKED
    /\ LET req   == th[t].arg
           found == match_rules(rules, rule_count, req.vid, req.pid, 0)
           us    == usb_string(req.str, SerialBufSize)
           seen  == Observe(t, "rules_store")
       IN  th' = [seen EXCEPT ![t] =
                IF ~found
                THEN [@ EXCEPT !.pc = "ret", !.ret = -EACCES, !.log = "reject_vidpid",
                               !.recs = @ + 1, !.held = (rules_lock = t)]
                ELSE IF req.iSerialNumber # 0 /\ us.ret > 0 /\ us.serial # << >>
                     THEN [@ EXCEPT !.pc = "serial", !.s = us.serial,
                                    !.held = (rules_lock = t)]
                     ELSE [@ EXCEPT !.pc = "ret", !.ret = 0, !.log = "accepted",
                                    !.recs = @ + 1, !.held = (rules_lock = t)]]
    /\ UNCHANGED <<store, init>>

\* the blocked serial rejected without its pr_alert()
SerialScan_Silent(t) ==
    /\ rules_lock' = UNLOCKED
    /\ LET hit == serial_blocked(blocked_serials, blocked_serial_count, th[t].s, 0)
       IN  th' = [th EXCEPT ![t] =
                IF hit
                THEN [@ EXCEPT !.pc = "ret", !.ret = -EACCES]
                ELSE [@ EXCEPT !.pc = "ret", !.ret = 0, !.log = "accepted",
                               !.recs = @ + 1]]
    /\ UNCHANGED <<store, init>>

\* serial_blocked() inside the lock, and the return of usbguard_probe()
SerialScan(t) ==
    /\ rules_lock' = UNLOCKED
    /\ LET hit  == serial_blocked(blocked_serials, blocked_serial_count, th[t].s, 0)
           seen == Observe(t, "blocked_store")
       IN  th' = [seen EXCEPT ![t] =
                IF hit
                THEN [@ EXCEPT !.pc = "ret", !.ret = -EACCES, !.log = "reject_serial",
                               !.recs = @ + 1, !.held = @ /\ rules_lock = t]
                ELSE [@ EXCEPT !.pc = "ret", !.ret = 0, !.log = "accepted",
                               !.recs = @ + 1, !.held = @ /\ rules_lock = t]]
    /\ UNCHANGED <<store, init>>


\* The probe inside one of its two critical sections.  The second is entered
\* only by a device whose identity matched a stored rule: under Spec, where
\* parse_vidpid_line() accepts no line and the rule list stays empty, it is
\* never entered; under SpecStore it is.
ProbeLocked(t) ==
    /\ th[t].pc \in {"match_cs", "serial_cs"}
    /\ IF th[t].pc = "match_cs" THEN MatchScan(t) ELSE SerialScan(t)

(***************************************************************************)
(* sysfs: rules_store(), blocked_store(), rules_show(), blocked_show().    *)
(***************************************************************************)
PAGE_SIZE == 4096

\* "%04x": at least four lower-case hexadecimal digits of a u16
Hex4(n) == <<LowerHex[((n \div 4096) % 16) + 1], LowerHex[((n \div 256) % 16) + 1],
             LowerHex[((n \div 16) % 16) + 1], LowerHex[(n % 16) + 1]>>

\* scnprintf(buf + len, PAGE_SIZE - len, ...): buf with as much of text as
\* fits in front of the terminating NUL
scnprintf(buf, text) ==
    LET size == PAGE_SIZE - Len(buf)
        n    == IF size <= 0 THEN 0
                ELSE IF Len(text) < size - 1 THEN Len(text) ELSE size - 1
    IN  buf \o SubSeq(text, 1, n)

\* the loop of rules_show(), from slot i on
RECURSIVE rules_show(_, _, _, _)
rules_show(rl, n, i, buf) ==
    IF i < n
    THEN rules_show(rl, n, i + 1,
                    scnprintf(buf, Hex4(rl[i].vid) \o <<" ">> \o Hex4(rl[i].pid) \o <<"\n">>))
    ELSE buf

\* the loop of blocked_show(), from slot i on
RECURSIVE blocked_show(_, _, _, _)
blocked_show(bs, n, i, buf) ==
    IF i < n
    THEN blocked_show(bs, n, i + 1,
                      IF bs[i] # NULL THEN scnprintf(buf, bs[i] \o <<"\n">>) ELSE buf)
    ELSE buf

\* a write to /sys/kernel/usbguard/rules arrives: tmp = kstrdup(buf)
RulesStoreCall(t) ==
    /\ "rules" \in init.attrs
    /\ th[t].pc = "idle"
    /\ \E buf \in RuleBufs, ok \in BOOLEAN :
        th' = [th EXCEPT ![t] =
                 IF ok
                 THEN [Idle EXCEPT !.pc = "rs_line", !.op = "rules_store",
                                   !.arg = buf, !.line = buf]
                 ELSE [Idle EXCEPT !.pc = "ret", !.op = "rules_store",
                                   !.arg = buf, !.ret = -ENOMEM]]
    /\ UNCHANGED <<store, rules_lock, init>>

\* one turn of the loop of rules_store(): cut the line, parse it and, under
\* the lock, append the pair while there is room; after the last line,
\* kfree(tmp) and return count
RulesStoreLine(t) ==
    /\ th[t].pc = "rs_line"
    /\ LET r    == parse_vidpid_line(trim(UpTo(th[t].line, "\n")))
           next == NextLine(th[t].line)
           put  == r.rc = 0 /\ RuleRoom(rule_count)
           rl   == IF put THEN StoreRule(rules, rule_count, Pair(r.vid, r.pid)) ELSE rules
           n    == IF put THEN rule_count + 1 ELSE rule_count
           me   == [th[t] EXCEPT !.line = next, !.cur = UpTo(th[t].line, "\n"),
                                 !.rc = r.rc,
                                 !.pc = IF next = NULL THEN "ret" ELSE "rs_line",
                                 !.ret = IF next = NULL THEN Len(th[t].arg) ELSE 0,
                                 !.added = IF put THEN @ + 1 ELSE @,
                                 !.obs = IF put /\ @ = "mid" THEN "torn" ELSE @,
                                 !.lst = IF put /\ @ = "mid" THEN "torn" ELSE @,
                                 !.ext = IF put THEN @ \cup {"pr_info"} ELSE @]
       IN  /\ r.rc = 0 => rules_lock = UNLOCKED
           /\ rules' = rl
           /\ rule_count' = n
           /\ oob' = (oob \/ (put /\ rule_count \notin DOMAIN rules))
           /\ addedPairs' = IF put THEN addedPairs \cup {Pair(r.vid, r.pid)} ELSE addedPairs
           /\ th' = Widen([th EXCEPT ![t] = me], rl, n, blocked_serials, blocked_serial_count)
    /\ UNCHANGED <<blocked_serials, blocked_serial_count, rules_lock, init>>

\* a write to /sys/kernel/usbguard/blocked_serials arrives
BlockedStoreCall(t) ==
    /\ "blocked_serials" \in init.attrs
    /\ th[t].pc = "idle"
    /\ \E buf \in SerialBufs, ok \in BOOLEAN :
        th' = [th EXCEPT ![t] =
                 IF ok
                 THEN [Idle EXCEPT !.pc = "bs_line", !.op = "blocked_store",
                                   !.arg = buf, !.line = buf]
                 ELSE [Idle EXCEPT !.pc = "ret", !.op = "blocked_store",
                                   !.arg = buf, !.ret = -ENOMEM]]
    /\ UNCHANGED <<store, rules_lock, init>>

\* one turn of the loop of blocked_store() up to its mutex_lock(): cut the
\* line and trim it; a blank line is passed over
BlockedStoreLine(t) ==
    /\ th[t].pc = "bs_line"
    /\ LET s    == trim(UpTo(th[t].line, "\n"))
           next == NextLine(th[t].line)
       IN  th' = [th EXCEPT ![t] =
                 IF s # << >>
                 THEN [@ EXCEPT !.pc = "bs_lock", !.s = s, !.line = next]
                 ELSE [@ EXCEPT !.line = next,
                                !.pc = IF next = NULL THEN "ret" ELSE "bs_line",
                                !.ret = IF next = NULL THEN Len(th[t].arg) ELSE 0]]
    /\ UNCHANGED <<store, rules_lock, init>>

\* inside the lock: blocked_serials[blocked_serial_count++] = kstrdup(s),
\* which is NULL when the copy cannot be allocated
BlockedStoreWrite(t) ==
    /\ th[t].pc = "bs_cs"
    /\ rules_lock' = UNLOCKED
    /\ \E copy \in {th[t].s, NULL} :
        LET put == SerialRoom(blocked_serial_count)
            bs  == IF put THEN StoreSerial(blocked_serials, blocked_serial_count, copy)
                   ELSE blocked_serials
            m   == IF put THEN blocked_serial_count + 1 ELSE blocked_serial_count
            me  == [th[t] EXCEPT !.s = NULL,
                                 !.pc = IF th[t].line = NULL THEN "ret" ELSE "bs_line",
                                 !.ret = IF th[t].line = NULL THEN Len(th[t].arg) ELSE 0,
                                 !.added = IF put THEN @ + 1 ELSE @,
                                 !.obs = IF put /\ @ = "mid" THEN "torn" ELSE @,
                                 !.lst = IF put /\ @ = "mid" THEN "torn" ELSE @,
                                 !.ext = IF put THEN @ \cup {"kstrdup"} ELSE @,
                                 !.held = @ /\ rules_lock = t]
        IN  /\ blocked_serials' = bs
            /\ blocked_serial_count' = m
            /\ oob' = (oob \/ (put /\ blocked_serial_count \notin DOMAIN blocked_serials))
            /\ th' = Widen([th EXCEPT ![t] = me], rules, rule_count, bs, m)
    /\ UNCHANGED <<rules, rule_count, addedPairs, init>>

\* a read of /sys/kernel/usbguard/rules or of .../blocked_serials arrives
ShowCall(t) ==
    /\ th[t].pc = "idle"
    /\ \E a \in {"rules_show", "blocked_show"} :
        /\ (IF a = "rules_show" THEN "rules" ELSE "blocked_serials") \in init.attrs
        /\ th' = [th EXCEPT ![t] =
                 [Idle EXCEPT !.op = a,
                              !.pc = IF a = "rules_show" THEN "rsh_lock" ELSE "bsh_lock"]]
    /\ UNCHANGED <<store, rules_lock, init>>

\* rules_show() inside the lock
RulesShow(t) ==
    /\ th[t].pc = "rsh_cs"
    /\ rules_lock' = UNLOCKED
    /\ LET buf == rules_show(rules, rule_count, 0, << >>)
       IN  th' = [ObserveList(t, "rules_store") EXCEPT
                    ![t] = [@ EXCEPT !.pc = "ret", !.out = buf, !.ret = Len(buf),
                                     !.n = rule_count, !.held = (rules_lock = t)]]
    /\ UNCHANGED <<store, init>>

\* blocked_show() inside the lock
BlockedShow(t) ==
    /\ th[t].pc = "bsh_cs"
    /\ rules_lock' = UNLOCKED
    /\ LET buf == blocked_show(blocked_serials, blocked_serial_count, 0, << >>)
       IN  th' = [ObserveList(t, "blocked_store") EXCEPT
                    ![t] = [@ EXCEPT !.pc = "ret", !.out = buf, !.ret = Len(buf),
                                     !.n = blocked_serial_count,
                                     !.held = (rules_lock = t)]]
    /\ UNCHANGED <<store, init>>

\* the handler returns to its caller
Return(t) ==
    /\ th[t].pc = "ret"
    /\ th' = [th EXCEPT ![t] = Idle]
    /\ UNCHANGED <<store, rules_lock, init>>

ThreadStep(t) ==
    \/ ProbeCall(t) \/ mutex_lock(t) \/ ProbeLocked(t)
    \/ RulesStoreCall(t) \/ RulesStoreLine(t)
    \/ BlockedStoreCall(t) \/ BlockedStoreLine(t) \/ BlockedStoreWrite(t)
    \/ ShowCall(t) \/ RulesShow(t) \/ BlockedShow(t)
    \/ Return(t)

Next ==
    \/ InitAlloc \/ LoadOpen \/ LoadRead \/ LoadLine \/ InitRegister
    \/ \E t \in Threads : ThreadStep(t)

Spec == Init /\ [][Next]_vars

(***************************************************************************)
(* The module's life in full: usbguard_init() after the load taken call by *)
(* call, with each of its failure paths, and usbguard_exit().  A sysfs     *)
(* attribute can be read and written from sysfs_create_file() on; a probe  *)
(* can arrive from usb_register() on.  sysfs_remove_file() first stops new *)
(* calls of the attribute and then waits for the calls in progress;        *)
(* usb_deregister() does the same for probes.                              *)
(***************************************************************************)
\* a pointer whose memory has been given to kfree()
FREED == <<"FREED">>

InFlight(ops) == {t \in Threads : th[t].pc # "idle" /\ th[t].op \in ops}

\* usbguard_kobj = kobject_create_and_add(...); on failure kfree(rules)
InitKobject ==
    /\ init.pc = "register"
    /\ \E ok \in BOOLEAN :
        IF ok
        THEN init' = [init EXCEPT !.pc = "sysfs_rules"] /\ UNCHANGED rules
        ELSE init' = [init EXCEPT !.pc = "failed"] /\ rules' = NULL
    /\ UNCHANGED <<rule_count, blocked_serials, blocked_serial_count, rules_lock, oob,
                   addedPairs, th>>

\* sysfs_create_file(&rules_attr); on failure goto out_kobj: kobject_put(),
\* kfree(rules)
InitSysfsRules ==
    /\ init.pc = "sysfs_rules"
    /\ \E ok \in BOOLEAN :
        IF ok
        THEN /\ init' = [init EXCEPT !.pc = "sysfs_blocked", !.attrs = @ \cup {"rules"}]
             /\ UNCHANGED rules
        ELSE init' = [init EXCEPT !.pc = "failed"] /\ rules' = NULL
    /\ UNCHANGED <<rule_count, blocked_serials, blocked_serial_count, rules_lock, oob,
                   addedPairs, th>>

\* sysfs_create_file(&blocked_attr); on failure sysfs_remove_file(&rules_attr)
\* is called, which stops new calls of the rules attribute
InitSysfsBlocked ==
    /\ init.pc = "sysfs_blocked"
    /\ \E ok \in BOOLEAN :
        IF ok
        THEN init' = [init EXCEPT !.pc = "usb_register",
                                  !.attrs = @ \cup {"blocked_serials"}]
        ELSE init' = [init EXCEPT !.pc = "rm_rules", !.attrs = @ \ {"rules"}]
    /\ UNCHANGED <<store, rules_lock, th>>

\* usb_register(&usbguard_driver); on failure the two attributes are removed,
\* the rules attribute first
InitUsbRegister ==
    /\ init.pc = "usb_register"
    /\ \E ok \in BOOLEAN :
        IF ok
        THEN init' = [init EXCEPT !.pc = "running", !.drv = TRUE]
        ELSE init' = [init EXCEPT !.pc = "rm_rules", !.attrs = @ \ {"rules"}]
    /\ UNCHANGED <<store, rules_lock, th>>

\* usbguard_exit() with kfree(rules) as its first statement
ExitCall_FreeFirst ==
    /\ init.pc = "running"
    /\ init' = [init EXCEPT !.pc = "dereg", !.drv = FALSE, !.path = "exit"]
    /\ rules' = NULL
    /\ UNCHANGED <<rule_count, blocked_serials, blocked_serial_count, rules_lock, oob,
                   addedPairs, th>>

\* usbguard_exit() is entered and calls usb_deregister(): no probe starts
\* from here on
ExitCall ==
    /\ init.pc = "running"
    /\ init' = [init EXCEPT !.pc = "dereg", !.drv = FALSE, !.path = "exit"]
    /\ UNCHANGED <<store, rules_lock, th>>

\* usb_deregister() returns when no probe is in progress; then
\* sysfs_remove_file(&rules_attr) is called
UsbDeregister ==
    /\ init.pc = "dereg"
    /\ InFlight({"probe"}) = {}
    /\ init' = [init EXCEPT !.pc = "rm_rules", !.attrs = @ \ {"rules"}]
    /\ UNCHANGED <<store, rules_lock, th>>

\* sysfs_remove_file(&rules_attr) returns when no call of the attribute is in
\* progress; then sysfs_remove_file(&blocked_attr) is called where that
\* attribute was created
SysfsRemoveRules ==
    /\ init.pc = "rm_rules"
    /\ InFlight({"rules_show", "rules_store"}) = {}
    /\ init' = [init EXCEPT !.pc = "rm_blocked", !.attrs = @ \ {"blocked_serials"}]
    /\ UNCHANGED <<store, rules_lock, th>>

\* sysfs_remove_file(&blocked_attr) returns when no call of the attribute is
\* in progress; kobject_put()
SysfsRemoveBlocked ==
    /\ init.pc = "rm_blocked"
    /\ InFlight({"blocked_show", "blocked_store"}) = {}
    /\ init' = [init EXCEPT !.pc = IF init.path = "exit" THEN "free_serials"
                                   ELSE "free_rules"]
    /\ UNCHANGED <<store, rules_lock, th>>

\* usbguard_exit(): mutex_lock(); kfree(blocked_serials[i]) for each counted
\* slot; mutex_unlock()
ExitFreeSerials ==
    /\ init.pc = "free_serials"
    /\ rules_lock = UNLOCKED
    /\ blocked_serials' =
          [i \in DOMAIN blocked_serials |->
              IF i < blocked_serial_count /\ blocked_serials[i] # NULL
              THEN FREED ELSE blocked_serials[i]]
    /\ init' = [init EXCEPT !.pc = "free_rules"]
    /\ UNCHANGED <<rules, rule_count, blocked_serial_count, rules_lock, oob,
                   addedPairs, th>>

\* kfree(rules), the last statement of usbguard_exit() and of each failure
\* path of usbguard_init()
FreeRules ==
    /\ init.pc = "free_rules"
    /\ rules' = NULL
    /\ init' = [init EXCEPT !.pc = IF init.path = "exit" THEN "unloaded" ELSE "failed"]
    /\ UNCHANGED <<rule_count, blocked_serials, blocked_serial_count, rules_lock, oob,
                   addedPairs, th>>

NextLife ==
    \/ InitAlloc \/ LoadOpen \/ LoadRead \/ LoadLine
    \/ InitKobject \/ InitSysfsRules \/ InitSysfsBlocked \/ InitUsbRegister
    \/ ExitCall \/ UsbDeregister \/ SysfsRemoveRules \/ SysfsRemoveBlocked
    \/ ExitFreeSerials \/ FreeRules
    \/ \E t \in Threads : ThreadStep(t)

SpecLife == Init /\ [][NextLife]_vars

(***************************************************************************)
(* The handlers started on a store that already holds rules.  The lookups  *)
(* and the probe are functions of the store's contents; SpecStore runs     *)
(* them, and the writers beside them, from each of the well-formed stores  *)
(* below, with the module loaded.                                          *)
(***************************************************************************)
RuleArray(seq) ==
    [i \in 0..(MAX_RULES - 1) |-> IF i < Len(seq) THEN seq[i + 1] ELSE Pair(0, 0)]

InitRules == {<< >>, <<Pair(1241, 5890)>>, <<Pair(1133, 49271), Pair(1241, 5890)>>}

InitStore ==
    /\ \E seq \in InitRules :
        /\ rules = RuleArray(seq)
        /\ rule_count = Len(seq)
    /\ blocked_serials = [i \in 0..(MAX_SERIALS - 1) |-> NULL]
    /\ blocked_serial_count = 0
    /\ rules_lock = UNLOCKED
    /\ oob = FALSE
    /\ addedPairs = StoredRules(rules, rule_count)
    /\ init = [pc |-> "running", src |-> NULL, pos |-> 0, line |-> NULL,
               cur |-> NULL, rc |-> 0, ext |-> {}, ret |-> 0,
               attrs |-> Attrs, drv |-> TRUE, path |-> "init"]
    /\ th = [t \in Threads |-> Idle]

NextStore == \E t \in Threads : ThreadStep(t)

SpecStore == InitStore /\ [][NextStore]_vars


(***************************************************************************)
(* The sysfs variant (src/unnamed/part_002): rules are added one per write *)
(* to /sys/class/usbguard/add_rule, parsed with sscanf(), and kept in the  *)
(* int arrays allowed_vids[] and allowed_pids[] with the int rule_count.   *)
(* There is no lock: add_rule_store() and usbguard_probe() run as the      *)
(* callers arrive, statement by statement.  Here rules[i].vid stands for   *)
(* allowed_vids[i] and rules[i].pid for allowed_pids[i]; the arrays have   *)
(* MAX_RULES slots and a store past the last slot lands in other memory.   *)
(***************************************************************************)
\* simple_strtoull(s, &next, 16): an optional "0x", then the run of digits
simple_strtoull(s) ==
    LET s1 == IF Len(s) >= 2 /\ s[1] = "0" /\ s[2] \in {"x", "X"} THEN From(s, 3) ELSE s
        r  == _parse_integer(s1, 0, 0)
    IN  [val |-> r.res, next |-> From(s1, r.rv + 1)]

\* sscanf(buf, "%x %x", &vid, &pid): n is the number of values converted.
\* Each %x skips white space and needs a hexadecimal digit to start; the
\* blank of the format skips white space, if any.  The values are stored in
\* ints; no text below has more than seven digits, so none wraps.
vsscanf_xx(buf) ==
    LET a == SkipSpace(buf)
    IN  IF a = << >> \/ hex_to_bin(Head(a)) < 0 THEN [n |-> 0, vid |-> 0, pid |-> 0]
        ELSE LET c1 == simple_strtoull(a)
                 b  == SkipSpace(c1.next)
             IN  IF b = << >> \/ hex_to_bin(Head(b)) < 0
                 THEN [n |-> 1, vid |-> c1.val, pid |-> 0]
                 ELSE [n |-> 2, vid |-> c1.val, pid |-> simple_strtoull(b).val]

SERIAL_BLOCKED == <<"B","L","O","C","K","E","D","_","S","E","R","I","A","L">>

BufMouse == <<"0","4","6","d"," ","c","0","7","7","\n">>

BufBad == <<"b","a","d"," ","l","i","n","e","\n">>

AddRuleBufs == {BufRule, BufMouse, BufBad}

InitAddRule ==
    /\ rules = [i \in 0..(MAX_RULES - 1) |-> Pair(0, 0)]
    /\ rule_count = 0
    /\ blocked_serials = [i \in 0..(MAX_SERIALS - 1) |-> NULL]
    /\ blocked_serial_count = 0
    /\ rules_lock = UNLOCKED
    /\ oob = FALSE
    /\ addedPairs = {}
    /\ init = [pc |-> "running", src |-> NULL, pos |-> 0, line |-> NULL,
               cur |-> NULL, rc |-> 0, ext |-> {}, ret |-> 0,
               attrs |-> {"add_rule"}, drv |-> TRUE, path |-> "init"]
    /\ th = [t \in Threads |-> Idle]

\* a write to /sys/class/usbguard/add_rule arrives
AddRuleCall(t) ==
    /\ th[t].pc = "idle"
    /\ \E buf \in AddRuleBufs :
        th' = [th EXCEPT ![t] = [Idle EXCEPT !.pc = "ar_check", !.op = "add_rule",
                                            !.arg = buf]]
    /\ UNCHANGED <<store, rules_lock, init>>

\* if (rule_count >= MAX_RULES) return -ENOMEM;
AddRuleCheck(t) ==
    /\ th[t].pc = "ar_check"
    /\ th' = [th EXCEPT ![t] =
                IF rule_count >= MAX_RULES
                THEN [@ EXCEPT !.pc = "ret", !.ret = -ENOMEM, !.n = rule_count]
                ELSE [@ EXCEPT !.pc = "ar_parse", !.n = rule_count]]
    /\ UNCHANGED <<store, rules_lock, init>>

\* if (sscanf(buf, "%x %x", &vid, &pid) != 2) return -EINVAL;
AddRuleParse(t) ==
    /\ th[t].pc = "ar_parse"
    /\ LET r == vsscanf_xx(th[t].arg)
       IN  th' = [th EXCEPT ![t] =
                IF r.n # 2
                THEN [@ EXCEPT !.pc = "ret", !.ret = -EINVAL]
                ELSE [@ EXCEPT !.pc = "ar_vid", !.cur = Pair(r.vid, r.pid)]]
    /\ UNCHANGED <<store, rules_lock, init>>

\* allowed_vids[rule_count] = vid;
AddRuleVid(t) ==
    /\ th[t].pc = "ar_vid"
    /\ rules' = IF rule_count \in DOMAIN rules
                THEN [rules EXCEPT ![rule_count].vid = th[t].cur.vid] ELSE rules
    /\ oob' = (oob \/ rule_count \notin DOMAIN rules)
    /\ th' = [th EXCEPT ![t].pc = "ar_pid"]
    /\ UNCHANGED <<rule_count, blocked_serials, blocked_serial_count, addedPairs,
                   rules_lock, init>>

\* allowed_pids[rule_count] = pid;
AddRulePid(t) ==
    /\ th[t].pc = "ar_pid"
    /\ rules' = IF rule_count \in DOMAIN rules
                THEN [rules EXCEPT ![rule_count].pid = th[t].cur.pid] ELSE rules
    /\ oob' = (oob \/ rule_count \notin DOMAIN rules)
    /\ th' = [th EXCEPT ![t].pc = "ar_inc"]
    /\ UNCHANGED <<rule_count, blocked_serials, blocked_serial_count, addedPairs,
                   rules_lock, init>>

\* rule_count++: the load
AddRuleIncRead(t) ==
    /\ th[t].pc = "ar_inc"
    /\ th' = [th EXCEPT ![t] = [@ EXCEPT !.pc = "ar_inc_wr", !.rc = rule_count]]
    /\ UNCHANGED <<store, rules_lock, init>>

\* rule_count++: the store; then printk() and return count
AddRuleIncWrite(t) ==
    /\ th[t].pc = "ar_inc_wr"
    /\ rule_count' = th[t].rc + 1
    /\ addedPairs' = addedPairs \cup {th[t].cur}
    /\ th' = [th EXCEPT ![t] = [@ EXCEPT !.pc = "ret", !.ret = Len(th[t].arg),
                                         !.added = 1]]
    /\ UNCHANGED <<rules, blocked_serials, blocked_serial_count, oob, rules_lock, init>>

\* usbguard_probe() of the variant: match_rules() over the rule_count slots,
\* then the one blocked serial.  A slot past the arrays is other memory and
\* may compare either way.
AddRuleProbe(t) ==
    /\ th[t].pc = "idle"
    /\ \E req \in Requests, other \in BOOLEAN :
        LET inside == IF rule_count < MAX_RULES THEN rule_count ELSE MAX_RULES
            found  == \/ match_rules(rules, inside, req.vid, req.pid, 0)
                      \/ rule_count > MAX_RULES /\ other
            us     == IF req.iSerialNumber = 0 THEN usb_string(NULL, SerialBufSize)
                      ELSE usb_string(req.str, SerialBufSize)
        IN  th' = [th EXCEPT ![t] =
                 [Idle EXCEPT !.pc = "ret", !.op = "probe", !.arg = req,
                              !.ret = IF ~found THEN -EACCES
                                      ELSE IF us.ret > 0 /\ us.serial = SERIAL_BLOCKED
                                           THEN -EACCES ELSE 0]]
    /\ UNCHANGED <<store, rules_lock, init>>

AddRuleStep(t) ==
    \/ AddRuleCall(t) \/ AddRuleCheck(t) \/ AddRuleParse(t)
    \/ AddRuleVid(t) \/ AddRulePid(t)
    \/ AddRuleIncRead(t) \/ AddRuleIncWrite(t)
    \/ AddRuleProbe(t)
    \/ Return(t)

NextAddRule == \E t \in Threads : AddRuleStep(t)

SpecAddRule == InitAddRule /\ [][NextAddRule]_vars


(***************************************************************************)
(* The rule-file variant (src/usbguard_v2.c): load_rules_from_file() reads *)
(* /etc/usbguard.rules into buf, a char pointer to 128 bytes from          *)
(* kmalloc(), and asks kernel_read() for sizeof(buf) - 1 bytes: the size   *)
(* of a pointer less one, 7 bytes where pointers have 8 bytes and 3 where  *)
(* they have 4.  Each piece read is treated as a line.  The load runs in   *)
(* usbguard_init() before usb_register(), alone.  rules[i].vid stands for  *)
(* allowed_vids[i] and rules[i].pid for allowed_pids[i].                   *)
(***************************************************************************)
V2_MAX_RULES == 10

\* sizeof(buf) for char *buf
PointerSizes == {4, 8}

\* what kmalloc() memory can hold before it is written
Fillers == {"#", "0"}

RuleFiles == {ShippedFile, SampleFile}

InitRuleFile ==
    /\ rules = [i \in 0..(V2_MAX_RULES - 1) |-> Pair(0, 0)]
    /\ rule_count = 0
    /\ blocked_serials = [i \in 0..(MAX_SERIALS - 1) |-> NULL]
    /\ blocked_serial_count = 0
    /\ rules_lock = UNLOCKED
    /\ oob = FALSE
    /\ addedPairs = {}
    /\ \E size \in PointerSizes :
        init = [pc |-> "kmalloc", src |-> NULL, pos |-> 0, buf |-> NULL, size |-> size]
    /\ th = [t \in Threads |-> Idle]

\* buf = kmalloc(128, GFP_KERNEL); if (!buf) return;
RuleFileAlloc ==
    /\ init.pc = "kmalloc"
    /\ \E ok \in BOOLEAN, c \in Fillers :
        init' = IF ok
                THEN [init EXCEPT !.pc = "open", !.buf = [i \in 1..(init.size - 1) |-> c]]
                ELSE [init EXCEPT !.pc = "done"]
    /\ UNCHANGED <<store, rules_lock, th>>

\* file = filp_open(RULES_FILE, O_RDONLY, 0); on failure kfree(buf); return;
RuleFileOpen ==
    /\ init.pc = "open"
    /\ \E f \in RuleFiles \cup {NULL} :
        init' = IF f = NULL THEN [init EXCEPT !.pc = "done", !.buf = NULL]
                ELSE [init EXCEPT !.pc = "loop", !.src = f]
    /\ UNCHANGED <<store, rules_lock, th>>

\* one turn of
\*   while (rule_count < MAX_RULES && kernel_read(file, buf, sizeof(buf) - 1, &pos) > 0)
\* with its body: buf[sizeof(buf) - 1] = '\0'; a piece that starts with '#'
\* or a newline, or from which sscanf() does not get two values, is passed
\* over; else the two values are stored and rule_count goes up.  What a short
\* last read does not overwrite stays in buf.  When the loop ends:
\* filp_close(), kfree(buf).
RuleFileChunk ==
    /\ init.pc = "loop"
    /\ LET want  == init.size - 1
           left  == Len(init.src) - init.pos
           bytes == IF left < want THEN left ELSE want
           text  == SubSeq(init.src, init.pos + 1, init.pos + bytes)
                    \o SubSeq(init.buf, bytes + 1, want)
           r     == vsscanf_xx(text)
       IN  IF rule_count >= V2_MAX_RULES \/ bytes <= 0
           THEN /\ init' = [init EXCEPT !.pc = "done", !.buf = NULL]
                /\ UNCHANGED <<rules, rule_count, addedPairs>>
           ELSE /\ init' = [init EXCEPT !.pos = @ + bytes, !.buf = text]
                /\ IF text[1] = "#" \/ text[1] = "\n" \/ r.n # 2
                   THEN UNCHANGED <<rules, rule_count, addedPairs>>
                   ELSE /\ rules' = [rules EXCEPT ![rule_count] = Pair(r.vid, r.pid)]
                        /\ rule_count' = rule_count + 1
                        /\ addedPairs' = addedPairs \cup {Pair(r.vid, r.pid)}
    /\ UNCHANGED <<blocked_serials, blocked_serial_count, oob, rules_lock, th>>

NextRuleFile == RuleFileAlloc \/ RuleFileOpen \/ RuleFileChunk

SpecRuleFile == InitRuleFile /\ [][NextRuleFile]_vars


(***************************************************************************)
(* The specification's vocabulary, for stating the properties.             *)
(***************************************************************************)
\* the decision a returned probe reported: its return value and its log line
Outcome(r) ==
    IF r.ret = 0 /\ r.log = "accepted" THEN "Allow"
    ELSE IF r.ret = -EACCES /\ r.log = "reject_vidpid" THEN "DenyIdentity"
    ELSE IF r.ret = -EACCES /\ r.log = "reject_serial" THEN "DenySerial"
    ELSE "none"

Returned(t, op) == th[t].op = op /\ th[t].pc = "ret"

\* the lines of a text, as the reader of a configuration source delivers them
RECURSIVE LinesOf(_)
LinesOf(text) ==
    IF text = NULL THEN << >> ELSE <<UpTo(text, "\n")>> \o LinesOf(NextLine(text))

\* the rule-line grammar ^\s*([0-9A-Fa-f]{1,4})\s+([0-9A-Fa-f]{1,4})\s*$
RECURSIVE HexRun(_)
HexRun(s) ==
    IF s # << >> /\ hex_to_bin(Head(s)) >= 0 THEN <<Head(s)>> \o HexRun(Tail(s)) ELSE << >>

RECURSIVE HexValue(_)
HexValue(ds) ==
    IF ds = << >> THEN 0 ELSE HexValue(SubSeq(ds, 1, Len(ds) - 1)) * 16 + hex_to_bin(ds[Len(ds)])

GrammarTokens(line) ==
    LET a  == SkipSpace(line)
        t1 == HexRun(a)
        b  == From(a, Len(t1) + 1)
        c  == SkipSpace(b)
        t2 == HexRun(c)
        d  == From(c, Len(t2) + 1)
    IN  [ok |-> /\ Len(t1) \in 1..4
                /\ b # << >> /\ isspace(Head(b))
                /\ Len(t2) \in 1..4
                /\ SkipSpace(d) = << >>,
         vid |-> HexValue(t1), pid |-> HexValue(t2)]

IsRuleLine(line) == GrammarTokens(line).ok

RulePair(line) == Pair(GrammarTokens(line).vid, GrammarTokens(line).pid)

\* the pairs of the well-formed rule lines of a text, in input order
RECURSIVE RulesOfLines(_)
RulesOfLines(ls) ==
    IF ls = << >> THEN << >>
    ELSE (IF IsRuleLine(Head(ls)) THEN <<RulePair(Head(ls))>> ELSE << >>)
         \o RulesOfLines(Tail(ls))

RulesOfText(text) == RulesOfLines(LinesOf(text))

\* the stored rules as a sequence, in slot order
RuleSeq == [i \in 1..rule_count |-> rules[i - 1]]

\* matches_identity(v, p) on the store as it stands
MatchesIdentity(pr) == match_rules(rules, rule_count, pr.vid, pr.pid, 0)

(***************************************************************************)
(* C1  Identity gate.  A probe of a device whose (vendor, product) pair    *)
(* equals no stored rule returns -EACCES with the "VID/PID not allowed"    *)
(* record, whatever its serial and whatever the blocked serials are, and   *)
(* never hands the serial to serial_blocked().                             *)
(***************************************************************************)
C1_IdentityGate ==
    \A t \in Threads :
        (Returned(t, "probe")
         /\ Pair(th[t].arg.vid, th[t].arg.pid) \notin StoredRules(rules, rule_count))
        => /\ th[t].ret = -EACCES
           /\ th[t].log = "reject_vidpid"
           /\ th[t].s = NULL

\* a device with serial "A" and no matching rule has been turned away while
\* "A" is a blocked serial
C1_Witness ==
    \E t \in Threads :
        /\ Returned(t, "probe")
        /\ th[t].arg.iSerialNumber # 0 /\ th[t].arg.str = <<"A">>
        /\ Pair(th[t].arg.vid, th[t].arg.pid) \notin StoredRules(rules, rule_count)
        /\ <<"A">> \in StoredSerials(blocked_serials, blocked_serial_count)
        /\ rule_count > 0
        /\ Outcome(th[t]) = "DenyIdentity"

(***************************************************************************)
(* C2  Decision table.  For a probe during which the store gave its device *)
(* one and the same answer: Allow exactly when the identity matches a      *)
(* stored rule and the serial is absent, empty or not blocked; Deny for    *)
(* the serial exactly when the identity matches and the serial is present  *)
(* and blocked; Deny for the identity otherwise.                           *)
(***************************************************************************)
C2_DecisionTable ==
    \A t \in Threads :
        (Returned(t, "probe") /\ Cardinality(th[t].win) = 1)
        => LET req     == th[t].arg
               matches == \E i \in 0..(rule_count - 1) :
                              rules[i].vid = req.vid /\ rules[i].pid = req.pid
               present == req.iSerialNumber # 0 /\ req.str \notin {NULL, << >>}
               blocked == present /\ \E i \in 0..(blocked_serial_count - 1) :
                                         blocked_serials[i] = req.str
           IN  /\ Outcome(th[t]) = "Allow" <=> (matches /\ ~blocked)
               /\ Outcome(th[t]) = "DenySerial" <=> (matches /\ blocked)
               /\ Outcome(th[t]) = "DenyIdentity" <=> ~matches

\* one matching device without a serial has been allowed while another
\* matching device, with a blocked serial, has been denied
C2_Witness ==
    \E t, u \in Threads :
        /\ Returned(t, "probe") /\ Returned(u, "probe")
        /\ th[t].arg.iSerialNumber = 0 /\ Outcome(th[t]) = "Allow"
        /\ th[u].arg.str = <<"A">> /\ Outcome(th[u]) = "DenySerial"
        /\ Cardinality(th[t].win) = 1 /\ Cardinality(th[u].win) = 1


(***************************************************************************)
(* C3  Capacity invariant.  In every reachable state the rule count is at  *)
(* most MAX_RULES, the blocked-serial count is at most MAX_SERIALS, and no *)
(* store has been made to a slot outside either array.                     *)
(***************************************************************************)
C3_Capacity ==
    /\ rule_count <= MAX_RULES
    /\ blocked_serial_count <= MAX_SERIALS
    /\ ~oob

\* the serial list is full and a further write of a serial has come back
\* without storing it
C3_Witness ==
    /\ blocked_serial_count = MAX_SERIALS
    /\ \E t \in Threads :
        /\ Returned(t, "blocked_store")
        /\ th[t].arg = BufSerialA
        /\ th[t].ret > 0
        /\ th[t].added = 0

(***************************************************************************)
(* C4  add_rule at the bound.  A write of one well-formed rule line either *)
(* stores the rule and reports success, or, made when MAX_RULES rules are  *)
(* stored, stores nothing and reports the failure to its caller.           *)
(***************************************************************************)
C4_AddAtBound ==
    \A t \in Threads :
        (Returned(t, "rules_store") /\ th[t].arg = BufRule /\ th[t].ret # -ENOMEM)
        => \/ th[t].added = 1 /\ th[t].ret = Len(th[t].arg)
           \/ th[t].added = 0 /\ th[t].ret < 0 /\ rule_count = MAX_RULES

(***************************************************************************)
(* C5  Add-then-match.  Once a write of the rule line for (v, p) has       *)
(* reported success, matches_identity(v, p) is true; and                   *)
(* matches_identity is true of no pair that the load or a write has not    *)
(* added.                                                                  *)
(***************************************************************************)
C5_AddThenMatch ==
    /\ \A t \in Threads :
        (Returned(t, "rules_store") /\ th[t].arg = BufRule /\ th[t].ret > 0)
        => MatchesIdentity(RulePair(UpTo(BufRule, "\n")))
    /\ \A pr \in Pairs : MatchesIdentity(pr) => pr \in addedPairs

(***************************************************************************)
(* C6  bulk_load result.  After the load of a file whose well-formed rule  *)
(* lines fit the capacity, the store holds exactly the pairs of those      *)
(* lines, in input order; for the five-line example these are 04d9:1702    *)
(* and 046d:c077.                                                          *)
(***************************************************************************)
C6_BulkLoad ==
    (init.pc \in {"register", "running"} /\ init.src # NULL
     /\ Len(RulesOfText(init.src)) <= MAX_RULES)
    => /\ RuleSeq = RulesOfText(init.src)
       /\ init.src = SampleFile => RuleSeq = <<Pair(1241, 5890), Pair(1133, 49271)>>

(***************************************************************************)
(* C7  Rule-line grammar.  parse_vidpid_line() returns 0 for exactly the   *)
(* lines that are two hexadecimal tokens of one to four digits separated   *)
(* by blanks or tabs, and then yields their values.                        *)
(***************************************************************************)
C7_Grammar ==
    \A t \in Threads :
        (th[t].op = "rules_store" /\ th[t].cur # NULL)
        => /\ th[t].rc = 0 <=> IsRuleLine(th[t].cur)
           /\ IsRuleLine(th[t].cur) =>
                 parse_vidpid_line(th[t].cur).vid = RulePair(th[t].cur).vid
                 /\ parse_vidpid_line(th[t].cur).pid = RulePair(th[t].cur).pid

(***************************************************************************)
(* C8  Concurrent adds and attaches.  When the two writers have each       *)
(* returned from adding its own pair, both pairs satisfy                   *)
(* matches_identity, and at every moment each rule a lookup can compare    *)
(* against is a whole pair that some add stored.                           *)
(***************************************************************************)
C8_ConcurrentAdds ==
    /\ (/\ Returned("t1", "rules_store") /\ th["t1"].arg = BufRule /\ th["t1"].ret > 0
        /\ Returned("t2", "rules_store") /\ th["t2"].arg = BufMixed /\ th["t2"].ret > 0)
       => \A i \in 1..Len(RulesOfText(BufRule) \o RulesOfText(BufMixed)) :
              MatchesIdentity((RulesOfText(BufRule) \o RulesOfText(BufMixed))[i])
    /\ StoredRules(rules, rule_count) \subseteq addedPairs

(***************************************************************************)
(* C9  Atomic decision.  The decision a probe returns is the decision the  *)
(* identity-then-serial algorithm gives on the store as it stood at some   *)
(* instant between the probe's call and its return.                        *)
(***************************************************************************)
C9_AtomicDecision ==
    \A t \in Threads : Returned(t, "probe") => Outcome(th[t]) \in th[t].win

\* a probe has returned from a call during which a write changed the answer
\* for its device, and its serial lookup ran after its identity lookup
C9_Witness ==
    \E t \in Threads :
        /\ Returned(t, "probe")
        /\ th[t].s # NULL
        /\ th[t].win = {"Allow", "DenySerial"}
        /\ Outcome(th[t]) = "DenySerial"

(***************************************************************************)
(* C10  Linearized writes.  No lookup or listing reads a list while a      *)
(* single write call has stored some, but not yet all, of the entries it   *)
(* adds to that list.                                                      *)
(***************************************************************************)
C10_Linearized ==
    \A t \in Threads : th[t].obs # "torn"


(***************************************************************************)
(* C11  Lock discipline.  At most one thread is inside a critical section; *)
(* a thread is inside one exactly while it owns rules_lock; every read and *)
(* write of the two lists and their counts by a handler was made by the    *)
(* owner of the lock; and the lock is free whenever no handler is between  *)
(* its mutex_lock() and its mutex_unlock(), on every exit path.            *)
(***************************************************************************)
CriticalPcs == {LockSites[k] : k \in DOMAIN LockSites}

C11_LockDiscipline ==
    /\ Cardinality({t \in Threads : th[t].pc \in CriticalPcs}) <= 1
    /\ \A t \in Threads : th[t].pc \in CriticalPcs <=> rules_lock = t
    /\ \A t \in Threads : th[t].held
    /\ (\A t \in Threads : th[t].pc \notin CriticalPcs) => rules_lock = UNLOCKED

\* one thread is inside the serial lookup's critical section while the other
\* waits for the lock, having been through a critical section of its own call
C11_Witness ==
    \E t, u \in Threads :
        /\ th[t].pc = "serial_cs"
        /\ th[u].pc = "bs_lock" /\ th[u].added > 0
        /\ rules_lock = t

(***************************************************************************)
(* C12  No collaborator call under the lock.  No handler, and not the file *)
(* load, logs or allocates between mutex_lock() and mutex_unlock().        *)
(***************************************************************************)
C12_NoCallUnderLock ==
    /\ init.ext = {}
    /\ \A t \in Threads : th[t].ext = {}

(***************************************************************************)
(* C13  Out-of-range and one-token lines.  A line with a value above       *)
(* 0xFFFF and a line with a vendor id only are malformed; so is, for the   *)
(* parser, a comment line: none of them adds a rule or changes the store,  *)
(* and no stored rule is the 16-bit cut of a larger value.                 *)
(***************************************************************************)
LineWide == <<"1","2","3","4","5"," ","1">>

LineOneToken == <<"0","4","d","9">>

LineComment == <<"#"," ","c">>

C13_Malformed ==
    /\ \A t \in Threads :
        (th[t].op = "rules_store" /\ th[t].cur \in {LineWide, LineOneToken, LineComment})
        => /\ th[t].rc # 0
           /\ th[t].added = 0
    /\ Pair(9029, 1) \notin StoredRules(rules, rule_count)
    /\ \A l \in {LineWide, LineOneToken, LineComment} : parse_vidpid_line(l).rc # 0

\* a write holding "12345 1" and then "04d9" has returned and the rule list
\* is as it was
C13_Witness ==
    \E t \in Threads :
        /\ Returned(t, "rules_store")
        /\ th[t].arg = BufWide
        /\ th[t].cur = LineOneToken
        /\ th[t].rc # 0
        /\ th[t].added = 0
        /\ rule_count = 0

(***************************************************************************)
(* C14  add_blocked_serial.  A write whose text is blank fails, and the    *)
(* failure is reported to the caller, the set and its count unchanged; a   *)
(* write of non-blank text below the bound appends the trimmed text; a     *)
(* write at the bound fails, and the failure is reported to the caller.    *)
(***************************************************************************)
C14_AddBlockedSerial ==
    \A t \in Threads :
        /\ (Returned(t, "blocked_store") /\ th[t].arg = BufBlank)
           => th[t].ret < 0 /\ th[t].added = 0
        /\ (Returned(t, "blocked_store") /\ th[t].arg = BufSerialA /\ th[t].ret # -ENOMEM)
           => \/ /\ th[t].ret = Len(BufSerialA) /\ th[t].added = 1
                 /\ \E i \in 0..(blocked_serial_count - 1) : blocked_serials[i] = <<"A">>
              \/ th[t].ret < 0 /\ th[t].added = 0 /\ blocked_serial_count = MAX_SERIALS


(***************************************************************************)
(* C15  is_serial_blocked.  The lookup is false for an absent or empty     *)
(* serial; for a non-empty serial it is true exactly when some stored      *)
(* blocked serial equals it character for character: no match on case,     *)
(* on a prefix or on the trimmed text.                                     *)
(***************************************************************************)
SameText(a, b) == Len(a) = Len(b) /\ \A k \in 1..Len(a) : a[k] = b[k]

C15_SerialBlocked ==
    /\ \A t \in Threads :
        (Returned(t, "probe") /\ th[t].arg.iSerialNumber # 0
         /\ th[t].arg.str \in {NULL, << >>})
        => th[t].s = NULL /\ th[t].log # "reject_serial"
    /\ \A t \in Threads :
        (Returned(t, "probe") /\ th[t].arg.iSerialNumber = 0)
        => th[t].s = NULL /\ th[t].log # "reject_serial"
    /\ \A x \in Serials \ {NULL, << >>} :
        serial_blocked(blocked_serials, blocked_serial_count, x, 0)
        <=> \E i \in 0..(blocked_serial_count - 1) :
                blocked_serials[i] # NULL /\ SameText(blocked_serials[i], x)

\* with "A" blocked, the device whose serial is "a" has been through the
\* serial lookup and accepted
C15_Witness ==
    \E t \in Threads :
        /\ Returned(t, "probe")
        /\ th[t].s = <<"a">>
        /\ th[t].log = "accepted"
        /\ <<"A">> \in StoredSerials(blocked_serials, blocked_serial_count)

(***************************************************************************)
(* C16  Append-only store.  Every step leaves each stored rule and each    *)
(* stored blocked serial in its slot: the counts never fall and the        *)
(* entries below the old counts are unchanged.                             *)
(***************************************************************************)
C16_AppendOnly ==
    [][/\ rule_count' >= rule_count
       /\ \A i \in 0..(rule_count - 1) : rules'[i] = rules[i]
       /\ blocked_serial_count' >= blocked_serial_count
       /\ \A i \in 0..(blocked_serial_count - 1) : blocked_serials'[i] = blocked_serials[i]
      ]_vars

\* rules are stored, the serial list is full and holds "A" in its first slot,
\* and a two-line write has come back with neither line stored
C16_Witness ==
    /\ rule_count > 0
    /\ blocked_serial_count = MAX_SERIALS
    /\ blocked_serials[0] = <<"A">>
    /\ \E t \in Threads :
        /\ Returned(t, "blocked_store")
        /\ th[t].arg = BufSerialAB
        /\ th[t].ret > 0
        /\ th[t].added = 0

(***************************************************************************)
(* C17  Independent lines.  In one write every well-formed line is added   *)
(* while there is room, whatever blank, comment or malformed lines stand   *)
(* before or after it.                                                     *)
(***************************************************************************)
C17_IndependentLines ==
    \A t \in Threads :
        /\ (Returned(t, "rules_store") /\ th[t].arg = BufMixed /\ th[t].ret > 0)
           => th[t].added = Len(RulesOfText(BufMixed)) \/ rule_count = MAX_RULES
        /\ (Returned(t, "blocked_store") /\ th[t].arg = BufSerialAB /\ th[t].ret > 0)
           => th[t].added = 2 \/ blocked_serial_count = MAX_SERIALS

(***************************************************************************)
(* C18  Non-deduplicating add.  Two writes of the same rule line, within   *)
(* the capacity, both succeed and leave the pair stored twice.             *)
(***************************************************************************)
C18_Duplicates ==
    (\A t \in Threads : Returned(t, "rules_store") /\ th[t].arg = BufRule /\ th[t].ret > 0)
    => Cardinality({i \in 1..rule_count : RuleSeq[i] = Pair(1241, 5890)})
           >= Cardinality(Threads)

(***************************************************************************)
(* C19  authorize is read-only.  No step of a probe, from its call to its  *)
(* return, changes the rule list, the blocked serials or either count.     *)
(***************************************************************************)
C19_ReadOnly ==
    [][\A t \in Threads :
          (th'[t].pc # th[t].pc /\ (th[t].op = "probe" \/ th'[t].op = "probe"))
          => /\ rules' = rules
             /\ rule_count' = rule_count
             /\ blocked_serials' = blocked_serials
             /\ blocked_serial_count' = blocked_serial_count
      ]_vars

\* a device matching the second of two rules, with a serial that is not
\* blocked, has been through both lookups and accepted
C19_Witness ==
    \E t \in Threads :
        /\ Returned(t, "probe")
        /\ rule_count = 2
        /\ rules[1] = Pair(th[t].arg.vid, th[t].arg.pid)
        /\ th[t].s = <<"A", " ">>
        /\ blocked_serial_count > 0
        /\ Outcome(th[t]) = "Allow"

(***************************************************************************)
(* C20  Listing snapshots.  A listing holds every rule, or every blocked   *)
(* serial, stored when it was taken, in slot order, and is never taken     *)
(* between two entries that one write call adds.                           *)
(***************************************************************************)
RECURSIVE RulesText(_, _)
RulesText(i, n) ==
    IF i < n
    THEN Hex4(rules[i].vid) \o <<" ">> \o Hex4(rules[i].pid) \o <<"\n">> \o RulesText(i + 1, n)
    ELSE << >>

RECURSIVE SerialsText(_, _)
SerialsText(i, n) ==
    IF i < n
    THEN (IF blocked_serials[i] = NULL THEN << >> ELSE blocked_serials[i] \o <<"\n">>)
         \o SerialsText(i + 1, n)
    ELSE << >>

C20_Listing ==
    \A t \in Threads :
        /\ Returned(t, "rules_show") => th[t].out = RulesText(0, th[t].n)
        /\ Returned(t, "blocked_show") => th[t].out = SerialsText(0, th[t].n)
        /\ th[t].lst # "torn"

(***************************************************************************)
(* C22  One audit record per decision.  A probe has logged no decision     *)
(* record before it decides and exactly one when it returns; the record is *)
(* "accepted" exactly when 0 is returned, and with -EACCES it is the       *)
(* VID/PID rejection when the identity lookup failed and the serial        *)
(* rejection when the serial lookup hit.                                   *)
(***************************************************************************)
C22_OneRecord ==
    \A t \in Threads :
        th[t].op = "probe" =>
            /\ th[t].recs = IF th[t].pc = "ret" THEN 1 ELSE 0
            /\ th[t].pc = "ret" =>
                /\ th[t].ret \in {0, -EACCES}
                /\ th[t].ret = 0 <=> th[t].log = "accepted"
                /\ th[t].ret = -EACCES <=> th[t].log \in {"reject_vidpid", "reject_serial"}
                /\ th[t].log = "reject_serial" => th[t].s # NULL
                /\ th[t].log = "reject_vidpid" => th[t].s = NULL

\* both threads have returned from a probe, one with the serial rejection and
\* one with the acceptance, each with its one record
C22_Witness ==
    \E t, u \in Threads :
        /\ Returned(t, "probe") /\ th[t].log = "reject_serial" /\ th[t].recs = 1
        /\ Returned(u, "probe") /\ th[u].log = "accepted" /\ th[u].recs = 1

(***************************************************************************)
(* C23  Load report.  When the file load has finished, what it returns     *)
(* counts the rules it added and the lines it skipped, and the two add up  *)
(* to the number of lines of the file.                                     *)
(***************************************************************************)
\* what load_rules_from_file() hands back: one int, with no count of lines
LoadReport == [loaded |-> init.ret, skipped |-> 0]

LoadDone == init.pc = "register" /\ init.src # NULL

\* the lines of a file: the texts between its newlines
NewlineAt(text) == {i \in 1..Len(text) : text[i] = "\n"}

LineStarts(text) == {1} \cup {i + 1 : i \in NewlineAt(text) \ {Len(text)}}

LineFrom(text, a) ==
    LET ends == {i \in NewlineAt(text) \cup {Len(text) + 1} : i >= a}
        e    == CHOOSE i \in ends : \A j \in ends : i <= j
    IN  SubSeq(text, a, e - 1)

FileLines(text) == {LineFrom(text, a) : a \in LineStarts(text)}

C23_LoadReport ==
    LoadDone =>
        /\ LoadReport.loaded = rule_count
        /\ LoadReport.loaded + LoadReport.skipped = Cardinality(LineStarts(init.src))

(***************************************************************************)
(* C26  Whole lines only.  After the load of a file whose one rule line    *)
(* lies across the end of a read, the store holds that line's pair and     *)
(* nothing else; no stored rule comes from a part of a line.               *)
(***************************************************************************)
C26_WholeLines ==
    /\ (init.src # NULL /\ init.pc \in {"read", "line", "register"})
       => \A i \in 1..rule_count : \E l \in FileLines(init.src) :
              IsRuleLine(l) /\ RuleSeq[i] = RulePair(l)
    /\ (LoadDone /\ init.src = StraddleFile) => RuleSeq = <<Pair(1241, 5890)>>

(***************************************************************************)
(* C29  Counted serial slots are real serials.  Each of the first          *)
(* blocked_serial_count slots holds a non-empty text.                      *)
(***************************************************************************)
C29_RealSerials ==
    \A i \in 0..(blocked_serial_count - 1) :
        i \in DOMAIN blocked_serials => blocked_serials[i] \notin {NULL, << >>}

(***************************************************************************)
(* C21  Every operation returns.  The handlers under a fair scheduler: a   *)
(* thread that can take a step of its handler takes it, and a thread       *)
(* waiting in mutex_lock() gets the lock if it is free again and again     *)
(* (the kernel mutex hands the lock to a waiter that has been passed       *)
(* over).  Calls arrive as they please.  Every call that has been entered  *)
(* reaches its return.                                                     *)
(***************************************************************************)
HandlerStep(t) ==
    \/ ProbeLocked(t)
    \/ RulesStoreLine(t)
    \/ BlockedStoreLine(t) \/ BlockedStoreWrite(t)
    \/ RulesShow(t) \/ BlockedShow(t)
    \/ Return(t)

\* the enabling condition of HandlerStep(t): the thread is inside a handler
\* and not at a mutex_lock(); the line step of rules_store() takes the lock
\* within the step when its line parses
Ready(t) ==
    \/ th[t].pc \in {"match_cs", "serial_cs", "bs_line", "bs_cs", "rsh_cs", "bsh_cs", "ret"}
    \/ /\ th[t].pc = "rs_line"
       /\ parse_vidpid_line(trim(UpTo(th[t].line, "\n"))).rc = 0 => rules_lock = UNLOCKED

\* weak fairness of HandlerStep(t), written with its enabling condition, and
\* strong fairness of mutex_lock(t)
SpecLive ==
    /\ SpecStore
    /\ \A t \in Threads :
        /\ []<>(~Ready(t)) \/ []<><<HandlerStep(t)>>_vars
        /\ SF_vars(mutex_lock(t))

C21_Returns ==
    \A t \in Threads : (th[t].pc \notin {"idle", "ret"}) ~> (th[t].pc = "ret")

\* a probe waits for the lock while the other thread holds it inside
\* blocked_show()
C21_Witness ==
    \E t, u \in Threads :
        /\ th[t].pc = "match"
        /\ rules_lock = u
        /\ th[u].pc = "bsh_cs"

(***************************************************************************)
(* C27  Startup ordering.  While usbguard_init() has not finished the file *)
(* load, no sysfs attribute exists, the driver is not registered and no    *)
(* probe or sysfs handler is running.                                      *)
(***************************************************************************)
LoadPending == init.pc \in {"alloc", "open", "read", "line"}

C27_LoadFirst ==
    LoadPending =>
        /\ init.attrs = {}
        /\ ~init.drv
        /\ \A t \in Threads : th[t].pc = "idle"

\* the load has read a file, both attributes exist, the driver is not yet
\* registered, and a write to the rules attribute is in progress
C27_Witness ==
    /\ init.pc = "usb_register"
    /\ init.src # NULL
    /\ \E t \in Threads : th[t].op = "rules_store" /\ th[t].pc = "rs_line"

(***************************************************************************)
(* C28  No use after release.  Once the rule array or a blocked-serial     *)
(* entry has been freed, the driver is deregistered, both attributes are   *)
(* removed and no handler is running, so none is to run again.             *)
(***************************************************************************)
Released ==
    \/ rules = NULL /\ init.pc # "alloc"
    \/ \E i \in DOMAIN blocked_serials : blocked_serials[i] = FREED

C28_NoUseAfterFree ==
    Released =>
        /\ ~init.drv
        /\ init.attrs = {}
        /\ \A t \in Threads : th[t].pc = "idle"
        /\ rules_lock = UNLOCKED

\* usbguard_exit() has run to its end on a module that held a blocked serial
C28_Witness ==
    /\ init.pc = "unloaded"
    /\ rules = NULL
    /\ blocked_serial_count > 0
    /\ blocked_serials[0] = FREED

(***************************************************************************)
(* C24  Sysfs add_rule variant.  With writes and probes arriving together  *)
(* the count never passes MAX_RULES, no store lands outside the arrays,    *)
(* and once the writes in progress have returned every pair a successful   *)
(* write was given is among the stored rules.                              *)
(***************************************************************************)
C24_AddRuleRace ==
    /\ rule_count <= MAX_RULES
    /\ ~oob
    /\ (\A t \in Threads : th[t].op = "add_rule" => th[t].pc = "ret")
       => addedPairs \subseteq StoredRules(rules, rule_count)
    /\ \A t \in Threads :
        (Returned(t, "add_rule") /\ th[t].n >= MAX_RULES) => th[t].ret = -ENOMEM

(***************************************************************************)
(* C25  Rule-file variant.  After the load of the shipped usbguard.rules   *)
(* the store holds the three rules of the file, 04d9:1702, 0781:5567 and   *)
(* 046d:c077, in that order, and nothing else.                             *)
(***************************************************************************)
ShippedRules == <<Pair(1241, 5890), Pair(1921, 21863), Pair(1133, 49271)>>

C25_ShippedFile ==
    (init.pc = "done" /\ init.src = ShippedFile) => RuleSeq = ShippedRules

=============================================================================
